---- MODULE Spec2Model ----
(***************************************************************************)
(* Model of txtai's embeddings index (src/python/txtai/embeddings.py) and  *)
(* its nearest-neighbour backends (src/python/txtai/ann.py).               *)
(*                                                                         *)
(* Vectors are symbolic: a vector is the raw vector the vectorizer made    *)
(* for a text together with the in-place steps (removePC, normalize) that  *)
(* were applied to it, in order.  Scores are fixed-point numbers, Unit     *)
(* standing for 1.0.  The libraries behind the backends (annoy, faiss,     *)
(* hnswlib), the vectorizer and TruncatedSVD are outside the repository;   *)
(* they are modelled by what they return to the code that calls them.      *)
(***************************************************************************)
EXTENDS Integers, Sequences, FiniteSets, TLC

VARIABLES
    faiss,   \* ann.py FAISS: the faiss library was importable
    e,       \* the Embeddings objects: config, embeddings, lsa, model
    dirs,    \* the index directories on disk
    out      \* the last call: which, on what, how it ended

vars == <<faiss, e, dirs, out>>

\* ------------------------------------------------------------------ bounds
MaxLimit == 3

\* fixed-point 1.0 (the 1 of "1 - d")
Unit == 10

\* one Embeddings object: Embeddings(config) makes it anew
Inst == {1}
Paths == {"p1"}

\* ------------------------------------------------------------------ inputs
\* documents: (id, text); the vectorizer maps a text to its raw vector
Docs3 == << [id |-> 11, text |-> 1], [id |-> 12, text |-> 2], [id |-> 13, text |-> 3] >>
Docs2 == << [id |-> 13, text |-> 3], [id |-> 11, text |-> 1] >>
Corpora == {Docs3, Docs2}

Texts == {1, 2, 3}
Batches == { <<1>>, <<3, 2>> }
TextLists == { <<1, 2>>, <<2, 3, 2>> }
Limits == 1..MaxLimit

\* the vector length the vectorizer declares
Dimensions == 4

\* ------------------------------------------------------------------ values
OrigPath == [dir |-> "orig", base |-> "vectors"]

NoConfig ==
    [set |-> FALSE, backend |-> "", pca |-> 0, storevectors |-> FALSE,
     path |-> [dir |-> "", base |-> ""], ids |-> <<>>, dimensions |-> 0,
     metric |-> ""]

Cfg(backend, pca, storevectors) ==
    [set |-> TRUE, backend |-> backend, pca |-> pca, storevectors |-> storevectors,
     path |-> OrigPath, ids |-> <<>>, dimensions |-> 0, metric |-> ""]

\* the configurations a caller constructs an Embeddings object with
UserConfigs ==
    { NoConfig, Cfg("", 0, FALSE), Cfg("annoy", 1, FALSE), Cfg("faiss", 0, FALSE),
      Cfg("hnsw", 0, TRUE) }

NoLSA == [k |-> 0, components |-> 0, fitOn |-> <<>>]

\* self.embeddings: kind "" is None; model is the library index held by the
\* ANN object: "none" (None), "empty" (made, nothing loaded or added), "built"
NoANN == [kind |-> "", model |-> "none", rows |-> <<>>]

NoFile == [kind |-> "", rows |-> <<>>]

\* a newly constructed Embeddings object (Embeddings.__init__)
Constructed(config) ==
    [config |-> config, embeddings |-> NoANN, lsa |-> NoLSA, model |-> config.set,
     origin |-> "new"]

Fresh == Constructed(NoConfig)

NoDir ==
    [exists |-> FALSE, config |-> NoConfig, embeddings |-> NoFile, lsa |-> NoLSA,
     vectors |-> FALSE, complete |-> FALSE, saver |-> Fresh]

\* ------------------------------------------------------------------ vectors
\* Vectors.transform / the rows of Vectors.index: the raw vector of a text
Raw(text) == [raw |-> text, steps |-> <<>>]

StepPC(lsa) == [op |-> "removePC", pc |-> lsa.components]
StepNorm == [op |-> "normalize", pc |-> 0]

\* Embeddings.removePC on one vector (in place)
removePCRow(lsa, v) == [v EXCEPT !.steps = Append(@, StepPC(lsa))]

\* Embeddings.removePC on a matrix: row-wise
removePC(lsa, m) == [x \in 1..Len(m) |-> removePCRow(lsa, m[x])]

\* Embeddings.normalize on one vector (in place)
normalizeRow(v) == [v EXCEPT !.steps = Append(@, StepNorm)]

\* Embeddings.normalize on a matrix
normalize(m) == [x \in 1..Len(m) |-> normalizeRow(m[x])]

RECURSIVE SumRaw(_)
SumRaw(m) == IF m = <<>> THEN 0 ELSE m[1].raw + SumRaw(Tail(m))

\* Embeddings.buildLSA: TruncatedSVD(n_components, random_state=0).fit(m) is a
\* function of the matrix alone; components stands for the basis it finds
buildLSA(m, components) ==
    [k |-> components, components |-> Len(m) * Unit + SumRaw(m), fitOn |-> m]

Abs(x) == IF x < 0 THEN -x ELSE x

\* the component bases that were removed from v, in order
PCs(v) == SelectSeq(v.steps, LAMBDA s : s.op = "removePC")

\* length of v: 1 when normalize was the last step, the raw length otherwise
Mag(v) == IF v.steps # <<>> /\ v.steps[Len(v.steps)].op = "normalize" THEN 1 ELSE v.raw + 1

\* inner product of two vectors (np.dot, and the libraries' inner product)
Dot(u, v) ==
    Mag(u) * Mag(v) *
        (Unit - 2 * Abs(u.raw - v.raw) - (IF PCs(u) = PCs(v) THEN 0 ELSE 3))

\* ------------------------------------------------------------------ sorting
RECURSIVE InsertDesc(_, _)
\* x goes behind every entry whose score is not lower: equal scores keep their order
InsertDesc(x, s) ==
    IF s = <<>> THEN <<x>>
    ELSE IF s[1].score >= x.score THEN <<s[1]>> \o InsertDesc(x, Tail(s))
    ELSE <<x>> \o s

RECURSIVE SortFrom(_, _)
SortFrom(s, acc) == IF s = <<>> THEN acc ELSE SortFrom(Tail(s), InsertDesc(s[1], acc))

RECURSIVE InsertDescFirst(_, _)
InsertDescFirst(x, s) ==
    IF s = <<>> THEN <<x>>
    ELSE IF s[1].score > x.score THEN <<s[1]>> \o InsertDescFirst(x, Tail(s))
    ELSE <<x>> \o s

RECURSIVE SortFromFirst(_, _)
SortFromFirst(s, acc) ==
    IF s = <<>> THEN acc ELSE SortFromFirst(Tail(s), InsertDescFirst(s[1], acc))

\* a descending sort that puts the later of two equal scores first
SortDescUnstable(s) == SortFromFirst(s, <<>>)

\* sorted(..., key=score, reverse=True): descending by score, stable
SortDesc(s) == SortFrom(s, <<>>)

Take(s, n) == SubSeq(s, 1, IF n < Len(s) THEN n ELSE Len(s))

\* enumerate(scores of one query against every row)
Scored(rows, q) == [x \in 1..Len(rows) |-> [id |-> x - 1, score |-> Dot(q, rows[x])]]

\* ------------------------------------------------------------------ ANN
\* ANN.create with a default that does not look at what is installed
ANNcreateDefaultFaiss(config, FAISS) ==
    LET backend == IF config.backend = "" THEN "faiss" ELSE config.backend
        made(kind) == [err |-> "", model |-> [NoANN EXCEPT !.kind = kind],
                       config |-> [config EXCEPT !.backend = backend]]
    IN  IF backend = "annoy" THEN made("annoy")
        ELSE IF backend = "hnsw" THEN made("hnsw")
        ELSE IF FAISS THEN made("faiss")
        ELSE [err |-> "ImportError", model |-> NoANN, config |-> config]

\* ANN.create: the backend object for a configuration, the name written back
ANNcreate(config, FAISS) ==
    LET backend == IF config.backend = "" THEN (IF FAISS THEN "faiss" ELSE "annoy")
                   ELSE config.backend
        made(kind) == [err |-> "", model |-> [NoANN EXCEPT !.kind = kind],
                       config |-> [config EXCEPT !.backend = backend]]
    IN  IF backend = "annoy" THEN made("annoy")
        ELSE IF backend = "hnsw" THEN made("hnsw")
        ELSE IF FAISS THEN made("faiss")
        ELSE [err |-> "ImportError", model |-> NoANN, config |-> config]

Built(ann, rows) == [ann EXCEPT !.model = "built", !.rows = rows]

\* Annoy.index: metric "dot", then the library index over the rows
Annoy_index(ann, config, embeddings, fails) ==
    LET c == [config EXCEPT !.metric = "dot"]
    IN  IF fails THEN [err |-> "MemoryError", model |-> ann, config |-> c]
        ELSE [err |-> "", model |-> Built(ann, embeddings), config |-> c]

\* Faiss.index
Faiss_index(ann, config, embeddings, fails) ==
    IF fails THEN [err |-> "MemoryError", model |-> ann, config |-> config]
    ELSE [err |-> "", model |-> Built(ann, embeddings), config |-> config]

\* HNSW.index: metric "ip"
HNSW_index(ann, config, embeddings, fails) ==
    LET c == [config EXCEPT !.metric = "ip"]
    IN  IF fails THEN [err |-> "MemoryError", model |-> ann, config |-> c]
        ELSE [err |-> "", model |-> Built(ann, embeddings), config |-> c]

ANN_index(ann, config, embeddings, fails) ==
    IF ann.kind = "annoy" THEN Annoy_index(ann, config, embeddings, fails)
    ELSE IF ann.kind = "hnsw" THEN HNSW_index(ann, config, embeddings, fails)
    ELSE Faiss_index(ann, config, embeddings, fails)

Failed(err) == [err |-> err, lists |-> <<>>]

\* Annoy.search: one get_nns_by_vector per query, the n nearest by inner product
Annoy_search(ann, queries, limit) ==
    IF ann.model = "none" THEN Failed("AttributeError")
    ELSE [err |-> "",
          lists |-> [x \in 1..Len(queries) |->
                        Take(SortDesc(Scored(ann.rows, queries[x])), limit)]]

\* what faiss fills a result row with when fewer than k vectors are stored
FaissPad == [id |-> -1, score |-> -(Unit * Unit * Unit)]

\* Faiss.search: always limit entries per query
Faiss_search(ann, queries, limit) ==
    IF ann.model = "none" THEN Failed("AttributeError")
    ELSE [err |-> "",
          lists |-> [x \in 1..Len(queries) |->
                        LET found == Take(SortDesc(Scored(ann.rows, queries[x])), limit)
                        IN  found \o [k \in 1..(limit - Len(found)) |-> FaissPad]]]

\* a score that is the distance itself
HNSW_scoreAsDistance(d) == d

\* HNSW.search: similarity from a distance
HNSW_score(d) == Unit - d

\* HNSW.search: knn_query gives the k nearest, nearest first, as distances
\* 1 - inner product; it raises when it cannot fill k results
HNSW_search(ann, queries, limit) ==
    IF ann.model = "none" THEN Failed("AttributeError")
    ELSE IF ann.model = "empty" \/ limit > Len(ann.rows) THEN Failed("RuntimeError")
    ELSE [err |-> "",
          lists |-> [x \in 1..Len(queries) |->
                        LET knn == Take(SortDesc(Scored(ann.rows, queries[x])), limit)
                            distance == [k \in 1..Len(knn) |-> Unit - knn[k].score]
                        IN  [k \in 1..Len(knn) |->
                                [id |-> knn[k].id, score |-> HNSW_score(distance[k])]]]]

ANN_search(ann, queries, limit) ==
    IF ann.kind = "" THEN Failed("AttributeError")
    ELSE IF ann.kind = "annoy" THEN Annoy_search(ann, queries, limit)
    ELSE IF ann.kind = "hnsw" THEN HNSW_search(ann, queries, limit)
    ELSE Faiss_search(ann, queries, limit)

FromFile(ann, file) == Built(ann, file.rows)

\* Annoy.load: an index of config's dimensions and metric, then the file
Annoy_load(ann, config, file) ==
    IF config.dimensions = 0 \/ config.metric = "" THEN [err |-> "KeyError", model |-> ann]
    ELSE IF file.kind # "annoy" THEN [err |-> "OSError", model |-> [ann EXCEPT !.model = "empty"]]
    ELSE [err |-> "", model |-> FromFile(ann, file)]

\* Faiss.load: read_index
Faiss_load(ann, config, file) ==
    IF file.kind # "faiss" THEN [err |-> "RuntimeError", model |-> ann]
    ELSE [err |-> "", model |-> FromFile(ann, file)]

\* HNSW.load
HNSW_load(ann, config, file) ==
    IF config.dimensions = 0 \/ config.metric = "" THEN [err |-> "KeyError", model |-> ann]
    ELSE IF file.kind # "hnsw" THEN [err |-> "RuntimeError", model |-> [ann EXCEPT !.model = "empty"]]
    ELSE [err |-> "", model |-> FromFile(ann, file)]

ANN_load(ann, config, file) ==
    IF ann.kind = "annoy" THEN Annoy_load(ann, config, file)
    ELSE IF ann.kind = "hnsw" THEN HNSW_load(ann, config, file)
    ELSE Faiss_load(ann, config, file)

\* Annoy.save / Faiss.save / HNSW.save: the library writes the index it holds
ANN_save(ann) ==
    IF ann.kind = "" \/ ann.model = "none" THEN [err |-> "AttributeError", file |-> NoFile]
    ELSE IF ann.model = "empty" THEN [err |-> "RuntimeError", file |-> NoFile]
    ELSE [err |-> "", file |-> [kind |-> ann.kind, rows |-> ann.rows]]

\* ------------------------------------------------------------------ Embeddings
\* Embeddings.transform: vectorize, remove the components if self.lsa, normalize
transform(self, text) ==
    LET embedding == Raw(text)
        denoised == IF self.lsa # NoLSA THEN removePCRow(self.lsa, embedding) ELSE embedding
    IN  normalizeRow(denoised)

\* lookup[i] of Python: negative i counts from the end, anything else raises
InRange(lookup, i) == -Len(lookup) <= i /\ i < Len(lookup)
PyIndex(lookup, i) == IF i >= 0 THEN lookup[i + 1] ELSE lookup[Len(lookup) + i + 1]

\* a remap that is off by one row
RemapNext(lookup, r) ==
    [k \in 1..Len(r) |-> [id |-> PyIndex(lookup, r[k].id - 1), score |-> r[k].score]]

\* Embeddings.batchsearch, the id remap: [(lookup[i], score) for i, score in r]
Remap(lookup, r) == [k \in 1..Len(r) |-> [id |-> PyIndex(lookup, r[k].id), score |-> r[k].score]]

\* Embeddings.batchsearch
batchsearch(self, queries, limit) ==
    IF ~self.model THEN Failed("AttributeError")
    ELSE LET embeddings == [x \in 1..Len(queries) |-> transform(self, queries[x])]
             results == ANN_search(self.embeddings, embeddings, limit)
             lookup == self.config.ids
         IN  IF results.err # "" THEN results
             ELSE IF lookup = <<>> THEN results
             ELSE IF \E x \in 1..Len(results.lists) : \E k \in 1..Len(results.lists[x]) :
                        ~InRange(lookup, results.lists[x][k].id)
                  THEN Failed("IndexError")
             ELSE [err |-> "",
                   lists |-> [x \in 1..Len(results.lists) |-> Remap(lookup, results.lists[x])]]

\* Embeddings.search
search(self, query, limit) ==
    LET r == batchsearch(self, <<query>>, limit)
    IN  IF r.err # "" THEN r ELSE [err |-> "", lists |-> r.lists[1]]

\* Embeddings.batchsimilarity
batchsimilarity(self, queries, texts) ==
    IF ~self.model THEN Failed("AttributeError")
    ELSE LET qs == [x \in 1..Len(queries) |-> transform(self, queries[x])]
             ts == [x \in 1..Len(texts) |-> transform(self, texts[x])]
         IN  [err |-> "", lists |-> [x \in 1..Len(qs) |-> SortDesc(Scored(ts, qs[x]))]]

\* Embeddings.index, from the stream the vectorizer handed over to the end.
\* fault: which library call raises ("" none, "read" pickle.load of a row,
\* "fit" TruncatedSVD.fit, "build" the backend's index constructor).
\* removed: os.remove(stream) ran.
index(self, documents, fault, FAISS) ==
    LET ids == [x \in 1..Len(documents) |-> documents[x].id]
        raw == [x \in 1..Len(documents) |-> Raw(documents[x].text)]
        pca == self.config.pca # 0
        lsa == IF pca THEN buildLSA(raw, self.config.pca) ELSE self.lsa
        denoised == IF pca THEN removePC(lsa, raw) ELSE raw
        embeddings == normalize(denoised)
        config == [self.config EXCEPT !.ids = ids, !.dimensions = Dimensions]
        s2 == [self EXCEPT !.lsa = lsa, !.config = config]
        created == ANNcreate(config, FAISS)
        built == ANN_index(created.model, created.config, embeddings, fault = "build")
        s4 == [s2 EXCEPT !.config = built.config, !.embeddings = built.model]
    IN  IF fault = "read" THEN [self |-> self, err |-> "EOFError", removed |-> FALSE]
        ELSE IF pca /\ fault = "fit" THEN [self |-> self, err |-> "ValueError", removed |-> TRUE]
        ELSE IF created.err # ""
             THEN [self |-> [s2 EXCEPT !.origin = "partial"], err |-> created.err, removed |-> TRUE]
        ELSE IF built.err # ""
             THEN [self |-> [s4 EXCEPT !.origin = "partial"], err |-> built.err, removed |-> TRUE]
        ELSE [self |-> [s4 EXCEPT !.origin = "index"], err |-> "", removed |-> TRUE]

\* os.path.basename / os.path.join on the vectors path
basename(path) == [dir |-> "", base |-> path.base]
join(dir, path) == IF path.dir = "" THEN [dir |-> dir, base |-> path.base] ELSE path

\* the vectors file at path exists (the working directory holds none)
FileExists(disk, path) ==
    IF path.dir = "orig" THEN TRUE
    ELSE IF path.dir \in Paths THEN disk[path.dir].vectors
    ELSE FALSE

\* Embeddings.save into directory path; disk is the directories before the call
save(self, path, disk) ==
    LET dir == disk[path]
        d1 == [dir EXCEPT !.exists = TRUE]
        copy == self.config.storevectors
        src == self.config.path
        dst == join(path, basename(src))
        config == IF copy THEN [self.config EXCEPT !.path = basename(src)] ELSE self.config
        s1 == [self EXCEPT !.config = config]
        d2 == IF copy THEN [d1 EXCEPT !.vectors = TRUE] ELSE d1
        d3 == [d2 EXCEPT !.config = config, !.complete = FALSE, !.saver = Fresh]
        written == ANN_save(self.embeddings)
        d4 == [d3 EXCEPT !.embeddings = written.file]
        d5 == IF self.lsa # NoLSA THEN [d4 EXCEPT !.lsa = self.lsa] ELSE d4
    IN  IF ~self.config.set THEN [self |-> self, dir |-> dir, err |-> ""]
        ELSE IF copy /\ src = dst THEN [self |-> self, dir |-> d1, err |-> "SameFileError"]
        ELSE IF copy /\ ~FileExists(disk, src)
             THEN [self |-> self, dir |-> d1, err |-> "FileNotFoundError"]
        ELSE IF written.err # "" THEN [self |-> s1, dir |-> d3, err |-> written.err]
        ELSE [self |-> s1, dir |-> [d5 EXCEPT !.complete = TRUE, !.saver = s1], err |-> ""]

\* Embeddings.load from directory path with contents dir
load(self, path, dir, FAISS) ==
    LET config == IF dir.config.storevectors
                  THEN [dir.config EXCEPT !.path = join(path, @)] ELSE dir.config
        s1 == [self EXCEPT !.config = config, !.origin = "partial"]
        created == ANNcreate(config, FAISS)
        loaded == ANN_load(created.model, created.config, dir.embeddings)
        s3 == [s1 EXCEPT !.config = created.config, !.embeddings = loaded.model]
        pca == config.pca # 0
        s4 == IF pca THEN [s3 EXCEPT !.lsa = dir.lsa] ELSE s3
    IN  IF ~dir.config.set THEN [self |-> self, err |-> "FileNotFoundError"]
        ELSE IF created.err # "" THEN [self |-> s1, err |-> created.err]
        ELSE IF loaded.err # "" THEN [self |-> s3, err |-> loaded.err]
        ELSE IF pca /\ dir.lsa = NoLSA THEN [self |-> s3, err |-> "FileNotFoundError"]
        ELSE [self |-> [s4 EXCEPT !.model = TRUE, !.origin = "load"], err |-> ""]

\* ------------------------------------------------------------------ actions
\* a call on a newly constructed object
AsNew(self) == self = Constructed(self.config)

NoCall ==
    [op |-> "", inst |-> 0, err |-> "", path |-> "", stream |-> "", kept |-> FALSE,
     before |-> Fresh, lsa |-> NoLSA]

\* the record of a call on object i, made as the call begins and ends.
\* stream: the temporary vector stream the vectorizer handed index(), as the
\* call ends: "kept" on disk, "removed", "" when none was handed.  before: the object as it
\* was when the call began, kept (kept = TRUE) for save(), and for index()
\* and load() on a newly constructed object.  lsa: the denoising model the
\* object held when load() began.
Done(op, i, err, path, stream) ==
    LET kept == op = "save" \/ (op \in {"index", "load"} /\ AsNew(e[i]))
    IN  [op |-> op, inst |-> i, err |-> err, path |-> path, stream |-> stream,
         kept |-> kept,
         before |-> IF kept THEN e[i] ELSE Fresh,
         lsa |-> IF op = "load" THEN e[i].lsa ELSE NoLSA]

Init ==
    /\ faiss \in BOOLEAN
    /\ e = [i \in Inst |-> Fresh]
    /\ dirs = [p \in Paths |-> NoDir]
    /\ out = NoCall

\* Embeddings(config)
New(i, config) ==
    /\ e' = [e EXCEPT ![i] = Constructed(config)]
    /\ out' = Done("new", i, "", "", "")
    /\ UNCHANGED <<faiss, dirs>>

\* index(documents) on an object without a vectors model: self.model is None
IndexNoModel(i) ==
    /\ ~e[i].model
    /\ out' = Done("index", i, "AttributeError", "", "")
    /\ UNCHANGED <<faiss, e, dirs>>

\* index(documents)
Index(i, documents, fault) ==
    /\ e[i].model
    /\ fault = "fit" => e[i].config.pca # 0
    /\ LET r == index(e[i], documents, fault, faiss)
       IN  /\ e' = [e EXCEPT ![i] = r.self]
           /\ out' = Done("index", i, r.err, "", IF r.removed THEN "removed" ELSE "kept")
    /\ UNCHANGED <<faiss, dirs>>

\* a save(path) that makes the directory before it looks at the configuration
SaveMakesDirFirst(i, path) ==
    /\ LET r == save(e[i], path, dirs)
       IN  /\ e' = [e EXCEPT ![i] = r.self]
           /\ dirs' = [dirs EXCEPT ![path] = [r.dir EXCEPT !.exists = TRUE]]
           /\ out' = Done("save", i, r.err, path, "")
    /\ UNCHANGED faiss

\* save(path)
Save(i, path) ==
    /\ LET r == save(e[i], path, dirs)
       IN  /\ e' = [e EXCEPT ![i] = r.self]
           /\ dirs' = [dirs EXCEPT ![path] = r.dir]
           /\ out' = Done("save", i, r.err, path, "")
    /\ UNCHANGED faiss

\* load(path)
Load(i, path) ==
    LET r == load(e[i], path, dirs[path], faiss)
    IN  /\ e' = [e EXCEPT ![i] = r.self]
        /\ out' = Done("load", i, r.err, path, "")
        /\ UNCHANGED <<faiss, dirs>>

\* batchsearch(queries, limit); search(query, limit) is the batch of one
BatchSearch(i, queries, limit) ==
    /\ out' = Done("batchsearch", i, batchsearch(e[i], queries, limit).err, "", "")
    /\ UNCHANGED <<faiss, e, dirs>>

\* batchsimilarity(queries, texts)
BatchSimilarity(i, queries, texts) ==
    /\ out' = Done("batchsimilarity", i, batchsimilarity(e[i], queries, texts).err, "",
                   "")
    /\ UNCHANGED <<faiss, e, dirs>>

Faults == {"", "read", "fit", "build"}

Next ==
    \/ \E i \in Inst, config \in UserConfigs : New(i, config)
    \/ \E i \in Inst : IndexNoModel(i)
    \/ \E i \in Inst, documents \in Corpora, fault \in Faults : Index(i, documents, fault)
    \/ \E i \in Inst, path \in Paths : Save(i, path)
    \/ \E i \in Inst, path \in Paths : Load(i, path)
    \/ \E i \in Inst, queries \in Batches, limit \in Limits : BatchSearch(i, queries, limit)
    \/ \E i \in Inst, queries \in Batches, texts \in TextLists : BatchSimilarity(i, queries, texts)

Spec == Init /\ [][Next]_vars

\* ------------------------------------------------------------------ claims
\* the object a completed save(path) wrote the directory from, as it was then
Saver(path) == dirs[path].saver

\* save(path) of an index built by index(documents), then load(path) into a
\* newly constructed object, both without error
RoundTripped ==
    /\ out.op = "load" /\ out.err = "" /\ out.kept /\ out.before = Fresh
    /\ dirs[out.path].complete
    /\ Saver(out.path).origin = "index"

\* C1: after save(path) of an index built by index(documents) and load(path)
\* into a fresh object, the loaded object has the saved object's backend name,
\* dimensions, metric and id list, maps every internal id to the same external
\* id, and answers every search(q, limit) with the same result list.
C1_RoundTrip ==
    RoundTripped =>
        LET a == Saver(out.path)
            b == e[out.inst]
        IN  /\ b.config.backend = a.config.backend
            /\ b.config.dimensions = a.config.dimensions
            /\ b.config.metric = a.config.metric
            /\ b.config.ids = a.config.ids
            /\ \A q \in Texts, limit \in Limits : search(b, q, limit) = search(a, q, limit)

\* C2: after load(path) returns, the denoising model transform applies is the
\* one stored in the directory, and there is none when the loaded
\* configuration has no pca option, whatever the object held before.
C2_LoadReplacesLSA ==
    (out.op = "load" /\ out.err = "") =>
        LET self == e[out.inst]
        IN  IF self.config.pca # 0 THEN self.lsa = dirs[out.path].lsa
            ELSE self.lsa = NoLSA

\* the objects whose batchsearch reaches the id remap
Searchable(self, queries, limit) ==
    self.model /\ ANN_search(self.embeddings, [x \in 1..Len(queries) |-> transform(self, queries[x])], limit).err = ""

BackendLists(self, queries, limit) ==
    ANN_search(self.embeddings, [x \in 1..Len(queries) |-> transform(self, queries[x])], limit).lists

\* C3: with an id list of length n stored, a backend result (i, score) with
\* 0 <= i < n comes back from batchsearch as (idList[i], score); with no id
\* list stored the backend's lists come back unchanged.
C3_IdRemap ==
    \A i \in Inst, queries \in Batches, limit \in Limits :
        LET self == e[i]
            r == batchsearch(self, queries, limit)
            b == BackendLists(self, queries, limit)
            n == Len(self.config.ids)
        IN  (Searchable(self, queries, limit) /\ r.err = "") =>
                /\ Len(r.lists) = Len(b)
                /\ \A x \in 1..Len(b) :
                      /\ Len(r.lists[x]) = Len(b[x])
                      /\ \A k \in 1..Len(b[x]) :
                            /\ r.lists[x][k].score = b[x][k].score
                            /\ (n > 0 /\ 0 <= b[x][k].id /\ b[x][k].id < n) =>
                                  r.lists[x][k].id = self.config.ids[b[x][k].id + 1]
                            /\ n = 0 => r.lists[x][k].id = b[x][k].id

\* a search ran on an object that holds a backend and no id list
C3_WitnessNoIds ==
    /\ out.op = "batchsearch" /\ out.err = ""
    /\ e[out.inst].config.ids = <<>>
    /\ \E queries \in Batches, limit \in Limits :
          /\ batchsearch(e[out.inst], queries, limit).err = ""
          /\ Len(batchsearch(e[out.inst], queries, limit).lists[1]) >= 2

\* a search ran on an index of three documents and returned remapped ids
C3_Witness ==
    /\ out.op = "batchsearch" /\ out.err = ""
    /\ Len(e[out.inst].config.ids) = 3
    /\ \E queries \in Batches, limit \in Limits :
          /\ batchsearch(e[out.inst], queries, limit).err = ""
          /\ Len(batchsearch(e[out.inst], queries, limit).lists[1]) >= 2

Descending(r) == \A k \in 1..(Len(r) - 1) : r[k].score >= r[k + 1].score

\* C4: whatever the backend, batchsearch returns one list per query, in query
\* order; each list is sorted descending by score and no longer than limit;
\* the id remap keeps the length and the order of the backend's list.
C4_Ranking ==
    \A i \in Inst, queries \in Batches, limit \in Limits :
        LET self == e[i]
            r == batchsearch(self, queries, limit)
            b == BackendLists(self, queries, limit)
        IN  r.err = "" =>
                /\ Len(r.lists) = Len(queries)
                /\ \A x \in 1..Len(queries) :
                      /\ Len(r.lists[x]) <= limit
                      /\ Descending(r.lists[x])
                      /\ Len(r.lists[x]) = Len(b[x])
                      /\ \A k \in 1..Len(b[x]) : r.lists[x][k].score = b[x][k].score
                      /\ r.lists[x] = search(self, queries[x], limit).lists

\* a search of a proximity-graph index returned two results of different score
C4_Witness ==
    /\ out.op = "batchsearch" /\ out.err = ""
    /\ e[out.inst].embeddings.kind = "hnsw"
    /\ \E q \in Texts :
          LET r == search(e[out.inst], q, 2)
          IN  r.err = "" /\ Len(r.lists) = 2 /\ r.lists[1].score > r.lists[2].score

\* C5: batchsimilarity returns one list per query, in query order; each list
\* holds every index of texts exactly once with its dot product, descending by
\* score, equal scores in index order; the backend plays no part.
C5_Similarity ==
    \A i \in Inst, queries \in Batches, texts \in TextLists :
        LET self == e[i]
            r == batchsimilarity(self, queries, texts)
            n == Len(texts)
        IN  /\ r.err = "" <=> self.model
            /\ r = batchsimilarity([self EXCEPT !.embeddings = NoANN], queries, texts)
            /\ r.err = "" =>
                /\ Len(r.lists) = Len(queries)
                /\ \A x \in 1..Len(queries) :
                      LET l == r.lists[x]
                      IN  /\ Len(l) = n
                          /\ \A j \in 0..(n - 1) : Cardinality({k \in 1..n : l[k].id = j}) = 1
                          /\ \A k \in 1..n :
                                l[k].score = Dot(transform(self, queries[x]),
                                                 transform(self, texts[l[k].id + 1]))
                          /\ Descending(l)
                          /\ \A k \in 1..(n - 1) :
                                l[k].score = l[k + 1].score => l[k].id < l[k + 1].id

\* a similarity call on an object that has no backend, with two texts of equal score
C5_Witness ==
    /\ out.op = "batchsimilarity" /\ out.err = ""
    /\ e[out.inst].embeddings = NoANN
    /\ \E queries \in Batches, texts \in TextLists :
          LET l == batchsimilarity(e[out.inst], queries, texts).lists[1]
          IN  \E k \in 1..(Len(l) - 1) : l[k].score = l[k + 1].score

\* the configurations the program holds: in an object, in a directory
HeldConfigs ==
    {c \in {e[i].config : i \in Inst} \cup {dirs[p].config : p \in Paths}
           \cup {out.before.config} : c.set}

\* C6: ANN.create selects the named variant; with no name faiss when it is
\* available and annoy otherwise, never an error; faiss named and unavailable
\* is an error; on success the name is written back to the configuration, so
\* creating from the written configuration gives the same variant.
C6_BackendSelection ==
    \A config \in HeldConfigs :
        LET r == ANNcreate(config, faiss)
            name == config.backend
        IN  /\ name \in {"annoy", "hnsw"} => r.err = "" /\ r.model.kind = name
            /\ (name = "faiss" /\ faiss) => r.err = "" /\ r.model.kind = "faiss"
            /\ (name = "faiss" /\ ~faiss) => r.err = "ImportError"
            /\ name = "" => r.err = "" /\ r.model.kind = (IF faiss THEN "faiss" ELSE "annoy")
            /\ r.err = "" =>
                  /\ r.config = [config EXCEPT !.backend = r.model.kind]
                  /\ ANNcreate(r.config, faiss).model.kind = r.model.kind
                  /\ ANNcreate(r.config, faiss).err = ""

\* index() on a configuration that names no backend, faiss unavailable: annoy
\* was selected and written back
C6_Witness ==
    /\ out.op = "index" /\ out.err = "" /\ ~faiss
    /\ out.kept /\ out.before.config.set /\ out.before.config.backend = ""
    /\ e[out.inst].config.backend = "annoy"
    /\ e[out.inst].embeddings.kind = "annoy"

\* what an object holds, without the model's own bookkeeping
Held(self) ==
    [config |-> self.config, embeddings |-> self.embeddings, lsa |-> self.lsa,
     model |-> self.model]

\* C7: index(documents) on an empty object whose configuration names faiss,
\* faiss unavailable, raises and leaves configuration, denoising model and
\* backend as they were.
C7_FailedIndexUnmodified ==
    ( /\ out.op = "index" /\ out.err = "ImportError" /\ ~faiss
      /\ out.kept /\ out.before.config.backend = "faiss" )
    => Held(e[out.inst]) = Held(out.before)

\* every part of the object is what one index(documents) makes: the ids of
\* the documents, the rows of their vectors, the model fit on them if pca
Coherent(self) ==
    /\ self.model
    /\ self.embeddings.model = "built"
    /\ self.embeddings.kind = self.config.backend
    /\ self.config.dimensions = Dimensions
    /\ \E documents \in Corpora :
          LET raw == [x \in 1..Len(documents) |-> Raw(documents[x].text)]
          IN  /\ self.config.ids = [x \in 1..Len(documents) |-> documents[x].id]
              /\ IF self.config.pca # 0
                 THEN /\ self.lsa = buildLSA(raw, self.config.pca)
                      /\ self.embeddings.rows = normalize(removePC(self.lsa, raw))
                 ELSE /\ self.lsa = NoLSA
                      /\ self.embeddings.rows = normalize(raw)

\* no backend model, and no search succeeds
Unsearchable(self) ==
    /\ self.embeddings.model # "built"
    /\ \A queries \in Batches, limit \in Limits : batchsearch(self, queries, limit).err # ""

\* C8: an object is either built or loaded as a whole (ids, dimensions,
\* denoising model and backend of one build) or has no backend model and
\* every search fails.
C8_NoPartialBuild == \A i \in Inst : Coherent(e[i]) \/ Unsearchable(e[i])

\* C9: when index() ends, the temporary stream the vectorizer handed it no
\* longer exists, however index() ended.
C9_StreamReleased ==
    (out.op = "index" /\ out.stream # "") => out.stream = "removed"

\* the steps of a transformed vector: the components of lsa removed (if there
\* is one), then normalize, and nothing else
Transformed(lsa) == IF lsa # NoLSA THEN <<StepPC(lsa), StepNorm>> ELSE <<StepNorm>>

\* C10: components are removed before normalization, which is the last step,
\* at build time and at query time; index() fits the model once, on raw
\* vectors; transform() applies the model that was fit or loaded for the
\* index it queries.
C10_TransformOrder ==
    \A i \in Inst :
        LET self == e[i]
            rows == self.embeddings.rows
        IN  /\ \A text \in Texts : transform(self, text).steps = Transformed(self.lsa)
            /\ (out.op = "index" /\ out.inst = i /\ out.err = "") =>
                  /\ \A x \in 1..Len(rows) :
                        rows[x].steps =
                            Transformed(IF self.config.pca # 0 THEN self.lsa ELSE NoLSA)
                  /\ self.config.pca # 0 =>
                        self.lsa = buildLSA([x \in 1..Len(rows) |-> Raw(rows[x].raw)],
                                            self.config.pca)
            /\ (self.model /\ self.embeddings.model = "built") =>
                  \A x \in 1..Len(rows), text \in Texts :
                      PCs(transform(self, text)) = PCs(rows[x])

\* C11: save(path) on an object with no configuration raises nothing, makes
\* no directory and no file, and leaves the object as it was.
C11_SaveNoConfig ==
    [][ (out'.op = "save" /\ ~e[out'.inst].config.set) =>
            /\ out'.err = ""
            /\ e' = e
            /\ dirs' = dirs ]_vars

\* save(path) was called on a newly constructed object without configuration,
\* and the directory does not exist
C11_Witness ==
    /\ out.op = "save" /\ out.err = ""
    /\ ~out.before.config.set
    /\ e[out.inst] = Fresh
    /\ ~dirs[out.path].exists

\* a directory save() has not written to before
OtherPath == "p2"

\* the directories on disk, and an empty place for OtherPath
WithOther == [p \in Paths \cup {OtherPath} |-> IF p \in Paths THEN dirs[p] ELSE NoDir]

\* which files a directory holds
Artifacts(dir) ==
    [config |-> dir.config.set, embeddings |-> dir.embeddings # NoFile,
     lsa |-> dir.lsa # NoLSA, vectors |-> dir.vectors]

\* C12: a successful save(path) on a built index leaves configuration (the
\* vectors path in it), denoising model and backend as they were, so that a
\* second save, to another directory, succeeds and writes the files the first
\* one wrote.  What save() writes does not depend on what the directory held,
\* so the first save's files are those the object as it was before writes
\* into a new directory.
C12_SaveFrame ==
    ( /\ out.op = "save" /\ out.err = ""
      /\ out.before.config.set /\ out.before.embeddings.model = "built" )
    => LET self == e[out.inst]
           first == save(out.before, OtherPath, WithOther)
           second == save(self, OtherPath, WithOther)
       IN  /\ Held(self) = Held(out.before)
           /\ second.err = ""
           /\ Artifacts(second.dir) = Artifacts(first.dir)

====
